---- MODULE Spec2Model ----
(***************************************************************************)
(* audio-lint: batch editing of FLAC Vorbis comments (src/src/process.rs). *)
(*                                                                         *)
(* Strings are sequences of one-character tokens.  A tag's comment block   *)
(* (metaflac VorbisComment) is a function from the keys it holds to the    *)
(* sequence of values of each key; a key outside the domain is absent.     *)
(***************************************************************************)
EXTENDS Integers, Sequences, FiniteSets, TLC

VARIABLES
  args,        \* parser::Args of the run
  entries,     \* the .flac paths the walk yields, in its order
  files,       \* filesystem: path -> inode
  disk,        \* filesystem: inode -> the tag read from it
  taken,       \* run: entries the iterator has handed out
  chunk,       \* run: the entries of the chunk being processed
  rpc,         \* run: "peek", "join", "done" or "panicked"
  wk,          \* entry -> its worker call (pc, tag in memory, messages, ...)
  messages,    \* run: the shared Vec of message blocks
  runNo,       \* number of the current run of the program
  prevOk,      \* inodes the run before processed without error
  nsave,       \* entry -> calls of tag.save() in this run
  nrename,     \* entry -> calls of fs::rename in this run
  files0,      \* files as the first run found it
  disk0,       \* disk as the first run found it
  ecomments,   \* editor harness: the in-memory comment block
  ebefore,     \* editor harness: the block before the last editor call
  emsg,        \* editor harness: Result<Message, Error> of the last call
  eop,         \* editor harness: the editor called last ("none" at start)
  eprev,       \* editor harness: eop and emsg as they were before the last call
  esteps       \* editor harness: editor calls made so far

evars == <<ecomments, ebefore, emsg, eop, eprev, esteps>>

bvars == <<args, entries, files, disk, taken, chunk, rpc, wk, messages, runNo,
           prevOk, nsave, nrename, files0, disk0>>

vars == <<bvars, evars>>

----------------------------------------------------------------------------
(* Characters *)

Digits == {"0", "1", "2", "3", "4", "5", "6", "7", "8", "9"}

DigitVal(c) ==
  CASE c = "0" -> 0 [] c = "1" -> 1 [] c = "2" -> 2 [] c = "3" -> 3
    [] c = "4" -> 4 [] c = "5" -> 5 [] c = "6" -> 6 [] c = "7" -> 7
    [] c = "8" -> 8 [] c = "9" -> 9

DigitChar(n) ==
  CASE n = 0 -> "0" [] n = 1 -> "1" [] n = 2 -> "2" [] n = 3 -> "3"
    [] n = 4 -> "4" [] n = 5 -> "5" [] n = 6 -> "6" [] n = 7 -> "7"
    [] n = 8 -> "8" [] n = 9 -> "9"

\* All strings over alphabet A of length exactly n, and of length at most n.
RECURSIVE StringsOfLen(_, _)
StringsOfLen(A, n) ==
  IF n = 0 THEN {<<>>}
  ELSE {<<c>> \o s : c \in A, s \in StringsOfLen(A, n - 1)}

StringsUpTo(A, n) == UNION {StringsOfLen(A, k) : k \in 0..n}

----------------------------------------------------------------------------
(* u32: a value is kept as two decimal limbs, val = hi * Limb + lo, so that *)
(* the 32-bit range (0 .. 4294967295) is exact.                            *)

Limb == 100000
U32MaxHi == 42949
U32MaxLo == 67295

U32Zero == [hi |-> 0, lo |-> 0]

\* acc * 10 + d with the overflow check of checked_mul / checked_add.
U32MulAdd(acc, d) ==
  LET lo10 == acc.lo * 10 + d
      hi10 == acc.hi * 10 + (lo10 \div Limb)
      lo   == lo10 % Limb
  IN  IF hi10 > U32MaxHi \/ (hi10 = U32MaxHi /\ lo > U32MaxLo)
      THEN [ok |-> FALSE, val |-> U32Zero]
      ELSE [ok |-> TRUE, val |-> [hi |-> hi10, lo |-> lo]]

RECURSIVE ParseDigits(_, _)
ParseDigits(s, acc) ==
  IF s = <<>> THEN [ok |-> TRUE, val |-> acc]
  ELSE IF Head(s) \notin Digits THEN [ok |-> FALSE, val |-> U32Zero]
  ELSE LET r == U32MulAdd(acc, DigitVal(Head(s)))
       IN  IF r.ok THEN ParseDigits(Tail(s), r.val) ELSE r

\* str::parse::<u32>: empty fails; a lone sign fails; one leading "+" is
\* dropped; "-" is an invalid digit for an unsigned type; no trimming.
ParseU32(s) ==
  IF s = <<>> THEN [ok |-> FALSE, val |-> U32Zero]
  ELSE IF Head(s) \in {"+", "-"} /\ Len(s) = 1 THEN [ok |-> FALSE, val |-> U32Zero]
  ELSE IF Head(s) = "+" THEN ParseDigits(Tail(s), U32Zero)
  ELSE ParseDigits(s, U32Zero)

RECURSIVE DecStr(_)
DecStr(n) ==
  IF n < 10 THEN <<DigitChar(n)>>
  ELSE DecStr(n \div 10) \o <<DigitChar(n % 10)>>

RECURSIVE ZeroPad(_, _)
ZeroPad(s, width) == IF Len(s) >= width THEN s ELSE ZeroPad(<<"0">> \o s, width)

\* u32::to_string: the canonical decimal string.
U32ToString(v) ==
  IF v.hi = 0 THEN DecStr(v.lo)
  ELSE DecStr(v.hi) \o ZeroPad(DecStr(v.lo), 5)

----------------------------------------------------------------------------
(* Message and Error *)

Unchanged == [kind |-> "Unchanged", old |-> <<>>, new |-> <<>>, err |-> ""]

ActionResult(old, new) ==
  [kind |-> "ActionResult", old |-> old, new |-> new, err |-> ""]

Err(e) == [kind |-> "Err", old |-> <<>>, new |-> <<>>, err |-> e]

----------------------------------------------------------------------------
(* VorbisComment access *)

\* comments.get(key)...iter().next() is Some
HasFirst(comments, key) == key \in DOMAIN comments /\ Len(comments[key]) > 0

First(comments, key) == comments[key][1]

\* comments.set(key, values): the key's values are replaced
SetField(comments, key, values) ==
  [k \in (DOMAIN comments) \cup {key} |->
     IF k = key THEN values ELSE comments[k]]

\* A block holding the one key with the given values.
Tag1(key, values) == [k \in {key} |-> values]

\* A block without any key.
NoComments == [k \in {} |-> <<>>]

----------------------------------------------------------------------------
(* Text helpers of the editors *)

\* A pattern that matches only a run of exactly four digits.
RECURSIVE FindYearFrom_WholeRun(_, _)
FindYearFrom_WholeRun(s, i) ==
  IF i + 3 > Len(s) THEN <<>>
  ELSE IF /\ \A k \in i..(i + 3) : s[k] \in Digits
          /\ (i = 1 \/ s[i - 1] \notin Digits)
          /\ (i + 3 = Len(s) \/ s[i + 4] \notin Digits)
       THEN SubSeq(s, i, i + 3)
  ELSE FindYearFrom_WholeRun(s, i + 1)

\* Regex (\d{4}) .captures(s): the leftmost four consecutive digits, from
\* position i on; <<>> when there is no match.
RECURSIVE FindYearFrom(_, _)
FindYearFrom(s, i) ==
  IF i + 3 > Len(s) THEN <<>>
  ELSE IF \A k \in i..(i + 3) : s[k] \in Digits THEN SubSeq(s, i, i + 3)
  ELSE FindYearFrom(s, i + 1)

FindYear(s) == FindYearFrom(s, 1)

Upper == {"A", "B", "EA"}

ToUpper(c) ==
  CASE c = "a" -> "A" [] c = "b" -> "B" [] c = "eA" -> "EA" [] OTHER -> c

\* Canonical decomposition (str::nfd): the precomposed e-acute ("eA", "EA")
\* becomes the base letter followed by the combining acute ("ca").
RECURSIVE Nfd(_)
Nfd(s) ==
  IF s = <<>> THEN <<>>
  ELSE (CASE Head(s) = "eA" -> <<"e", "ca">>
          [] Head(s) = "EA" -> <<"E", "ca">>
          [] OTHER -> <<Head(s)>>) \o Nfd(Tail(s))

\* The words of s: maximal runs of non-space characters.
RECURSIVE Words(_, _)
Words(s, cur) ==
  IF s = <<>> THEN (IF cur = <<>> THEN <<>> ELSE <<cur>>)
  ELSE IF Head(s) = " "
       THEN (IF cur = <<>> THEN <<>> ELSE <<cur>>) \o Words(Tail(s), <<>>)
       ELSE Words(Tail(s), Append(cur, Head(s)))

\* A word keeps its spelling when it has a capital after its first letter,
\* otherwise its first letter is capitalised.
TitleWord(word) ==
  IF \E k \in 2..Len(word) : word[k] \in Upper THEN word
  ELSE <<ToUpper(Head(word))>> \o Tail(word)

RECURSIVE JoinWords(_)
JoinWords(ws) ==
  IF ws = <<>> THEN <<>>
  ELSE IF Len(ws) = 1 THEN Head(ws)
  ELSE Head(ws) \o <<" ">> \o JoinWords(Tail(ws))

\* titlecase(s): the input trimmed, runs of whitespace collapsed to one space,
\* every word title-cased.
Titlecase(s) ==
  LET ws == Words(s, <<>>)
  IN  JoinWords([k \in 1..Len(ws) |-> TitleWord(ws[k])])

\* str::replace(from, " ") for a one-character pattern.
RECURSIVE ReplaceChar(_, _)
ReplaceChar(s, from) ==
  IF s = <<>> THEN <<>>
  ELSE <<IF Head(s) = from THEN " " ELSE Head(s)>> \o ReplaceChar(Tail(s), from)

----------------------------------------------------------------------------
(* The editors.  Each returns the Result<Message, Error> (msg) and the      *)
(* comment block as the call leaves it (comments).                          *)

\* normalize_tracknumber without its "no changes would be made" return.
normalize_tracknumber_NoEarlyReturn(comments) ==
  IF ~HasFirst(comments, "TRACKNUMBER")
  THEN [msg |-> Err("Failed to load tag: load tracknumber"), comments |-> comments]
  ELSE LET old_number == First(comments, "TRACKNUMBER")
           parsed     == ParseU32(old_number)
           new_number == U32ToString(parsed.val)
       IN  IF ~parsed.ok
           THEN [msg |-> Err("ParseIntError"), comments |-> comments]
           ELSE [msg |-> ActionResult(old_number, new_number),
                 comments |-> SetField(comments, "TRACKNUMBER", <<new_number>>)]

normalize_tracknumber(comments) ==
  IF ~HasFirst(comments, "TRACKNUMBER")
  THEN [msg |-> Err("Failed to load tag: load tracknumber"), comments |-> comments]
  ELSE LET old_number == First(comments, "TRACKNUMBER")
           parsed     == ParseU32(old_number)
           new_number == U32ToString(parsed.val)
       IN  IF ~parsed.ok
           THEN [msg |-> Err("ParseIntError"), comments |-> comments]
           ELSE IF old_number = new_number
           THEN [msg |-> Unchanged, comments |-> comments]
           ELSE [msg |-> ActionResult(old_number, new_number),
                 comments |-> SetField(comments, "TRACKNUMBER", <<new_number>>)]

normalize_title(comments) ==
  IF ~HasFirst(comments, "TITLE")
  THEN [msg |-> Err("Failed to load tag: load title"), comments |-> comments]
  ELSE LET old_title == First(comments, "TITLE")
           new_title == Titlecase(old_title)
       IN  IF Nfd(old_title) = Nfd(new_title)
           THEN [msg |-> Unchanged, comments |-> comments]
           ELSE [msg |-> ActionResult(old_title, new_title),
                 comments |-> SetField(comments, "TITLE", <<new_title>>)]

normalize_year(comments) ==
  IF ~HasFirst(comments, "DATE")
  THEN [msg |-> Err("Failed to load tag: load date"), comments |-> comments]
  ELSE LET old_date == First(comments, "DATE")
           new_date == FindYear(old_date)
       IN  IF new_date = <<>>
           THEN [msg |-> Err("Failed to parse: parse into new date"),
                 comments |-> comments]
           ELSE IF old_date = new_date
           THEN [msg |-> Unchanged, comments |-> comments]
           ELSE [msg |-> ActionResult(old_date, new_date),
                 comments |-> SetField(comments, "DATE", <<new_date>>)]

\* set_genre that reports the change and leaves the comment block alone.
set_genre_ReportOnly(comments, genre) ==
  IF ~HasFirst(comments, "GENRE")
  THEN [msg |-> Err("Failed to load tag: load genre"), comments |-> comments]
  ELSE LET old_genre == First(comments, "GENRE")
       IN  IF old_genre = genre
           THEN [msg |-> Unchanged, comments |-> comments]
           ELSE [msg |-> ActionResult(old_genre, genre), comments |-> comments]

set_genre(comments, genre) ==
  IF ~HasFirst(comments, "GENRE")
  THEN [msg |-> Err("Failed to load tag: load genre"), comments |-> comments]
  ELSE LET old_genre == First(comments, "GENRE")
       IN  IF old_genre = genre
           THEN [msg |-> Unchanged, comments |-> comments]
           ELSE [msg |-> ActionResult(old_genre, genre),
                 comments |-> SetField(comments, "GENRE", <<genre>>)]

TookOut == <<"Took out the string">>

\* clean_others that acts only when both COMMENT and LYRICS are populated.
clean_others_RequiringBoth(comments) ==
  LET has_comment == HasFirst(comments, "COMMENT") /\ First(comments, "COMMENT") # <<>>
      has_lyrics  == HasFirst(comments, "LYRICS") /\ First(comments, "LYRICS") # <<>>
  IN  IF ~has_lyrics \/ ~has_comment
      THEN [msg |-> Unchanged, comments |-> comments]
      ELSE [msg |-> ActionResult(<<>>, TookOut),
            comments |-> SetField(SetField(comments, "COMMENT", << <<>> >>),
                                  "LYRICS", << <<>> >>)]

clean_others(comments) ==
  LET has_comment == HasFirst(comments, "COMMENT") /\ First(comments, "COMMENT") # <<>>
      has_lyrics  == HasFirst(comments, "LYRICS") /\ First(comments, "LYRICS") # <<>>
  IN  IF ~has_lyrics /\ ~has_comment
      THEN [msg |-> Unchanged, comments |-> comments]
      ELSE [msg |-> ActionResult(<<>>, TookOut),
            comments |-> SetField(SetField(comments, "COMMENT", << <<>> >>),
                                  "LYRICS", << <<>> >>)]

set_year(comments, year) ==
  IF ~HasFirst(comments, "DATE")
  THEN [msg |-> Err("Failed to load tag: load date"), comments |-> comments]
  ELSE LET old_date == First(comments, "DATE")
           new_date == U32ToString(year)
       IN  IF old_date = new_date
           THEN [msg |-> Unchanged, comments |-> comments]
           ELSE [msg |-> ActionResult(old_date, new_date),
                 comments |-> SetField(comments, "DATE", <<new_date>>)]

----------------------------------------------------------------------------
(* Paths and the renamer *)

FlacExt == <<"f", "l", "a", "c">>

\* Position of the last "." of a file name, 0 when it has none.
LastDot(name) ==
  LET dots == {k \in 1..Len(name) : name[k] = "."}
  IN  IF dots = {} THEN 0 ELSE CHOOSE k \in dots : \A j \in dots : j <= k

\* Path::extension: the part after the last ".", none for a name without a
\* "." or whose only "." is its first character.
HasExtension(name) == LastDot(name) > 1

Extension(name) == SubSeq(name, LastDot(name) + 1, Len(name))

\* format!("{:0>2} - {}.{}", tracknumber, title with ":" and "/" blanked, ext)
NewName(tracknumber, title, ext) ==
  ZeroPad(tracknumber, 2) \o <<" ", "-", " ">>
    \o ReplaceChar(ReplaceChar(title, ":"), "/") \o <<".">> \o ext

\* rename(path, comments, run) up to the filesystem call: the message, and the
\* path the file is to be moved to (parent.join(new_name)).
rename(path, comments) ==
  IF ~HasExtension(path.name)
  THEN [msg |-> Err("Failed to load file: file extension not present"), new_path |-> path]
  ELSE IF ~HasFirst(comments, "TRACKNUMBER")
  THEN [msg |-> Err("Failed to load tag: can't load tracknumber"), new_path |-> path]
  ELSE IF ~HasFirst(comments, "TITLE")
  THEN [msg |-> Err("Failed to load tag: can't load title"), new_path |-> path]
  ELSE LET new_name == NewName(First(comments, "TRACKNUMBER"),
                               First(comments, "TITLE"), Extension(path.name))
       IN  IF Nfd(path.name) = Nfd(new_name)
           THEN [msg |-> Unchanged, new_path |-> path]
           ELSE [msg |-> ActionResult(path.name, new_name),
                 new_path |-> [dir |-> path.dir, name |-> new_name]]

\* Message::to_string(prefix, file_name, run): one line of a file's block.  An
\* unchanged line carries the file name, a change its old and new value; the
\* new value is green when committing and yellow in a preview.
Line(prefix, msg, file_name, run) ==
  IF msg.kind = "Unchanged"
  THEN [prefix |-> prefix, kind |-> "Unchanged", name |-> file_name,
        old |-> <<>>, new |-> <<>>, colour |-> "normal"]
  ELSE [prefix |-> prefix, kind |-> "ActionResult", name |-> <<>>,
        old |-> msg.old, new |-> msg.new,
        colour |-> IF run THEN "green" ELSE "yellow"]

----------------------------------------------------------------------------
(* The filesystem: files maps each existing path to its inode, disk maps    *)
(* each inode to what Tag::read_from_path finds in it.                      *)

\* fs::rename(from, to): to now names from's inode; a file that to named
\* before is replaced.
FsRename(fs, from, to) ==
  [p \in ((DOMAIN fs) \ {from}) \cup {to} |-> IF p = to THEN fs[from] ELSE fs[p]]

RECURSIVE SetToSeq(_)
SetToSeq(S) ==
  IF S = {} THEN <<>>
  ELSE LET x == CHOOSE y \in S : TRUE IN <<x>> \o SetToSeq(S \ {x})

\* The walk of the root directory: every .flac path that exists.
Walk(fs) == SetToSeq({p \in DOMAIN fs : HasExtension(p.name) /\ Extension(p.name) = FlacExt})

----------------------------------------------------------------------------
(* worker and run *)

ChunkSize == 10

Stages == <<"tracknumber", "title", "year", "genre", "clean", "setyear", "rename">>

StageEnabled(a, stage) ==
  CASE stage = "tracknumber" -> a.normalize_tracknumber
    [] stage = "title"       -> a.normalize_title
    [] stage = "year"        -> a.normalize_year
    [] stage = "genre"       -> a.set_genre
    [] stage = "clean"       -> a.clean_others
    [] stage = "setyear"     -> a.set_year
    [] stage = "rename"      -> a.rename

\* A save that does not look at run.
ShouldSave_IgnoringRun(run, tag_modified) == tag_modified

\* if run && tag_modified { tag.save()? }
ShouldSave(run, tag_modified) == run /\ tag_modified

\* A worker that goes on with the last enabled stage instead of the next one.
NextPc_Last(a, k, tag_modified) ==
  LET later == {j \in (k + 1)..Len(Stages) : StageEnabled(a, Stages[j])}
  IN  IF later # {} THEN Stages[CHOOSE j \in later : \A m \in later : j >= m]
      ELSE IF ShouldSave(a.run, tag_modified) THEN "save"
      ELSE "push"

\* Where worker goes after stage number k (0: after the tag is read): the next
\* enabled stage, else the save, else the return.
NextPc(a, k, tag_modified) ==
  LET later == {j \in (k + 1)..Len(Stages) : StageEnabled(a, Stages[j])}
  IN  IF later # {} THEN Stages[CHOOSE j \in later : \A m \in later : j <= m]
      ELSE IF ShouldSave(a.run, tag_modified) THEN "save"
      ELSE "push"

IdleWorker ==
  [pc |-> "start", comments |-> NoComments, read |-> NoComments, ino |-> 0,
   tag_modified |-> FALSE, messages |-> <<>>, result |-> ""]

\* worker(entry) of the current chunk is at pc.
At(i, pc) == rpc = "join" /\ i \in chunk /\ wk[i].pc = pc

\* An early return of worker with an error (the ? operator): the messages
\* collected so far are dropped with the frame.
Fail(w, e) == [w EXCEPT !.pc = "push", !.result = e]

\* let mut tag = metaflac::Tag::read_from_path(path)?
WorkerOpen(i) ==
  /\ At(i, "start")
  /\ LET path == entries[i]
     IN  IF path \in DOMAIN files /\ disk[files[path]].readable
         THEN wk' = [wk EXCEPT ![i] =
                [@ EXCEPT !.comments = disk[files[path]].comments,
                          !.read = disk[files[path]].comments,
                          !.ino = files[path],
                          !.pc = NextPc(args, 0, FALSE)]]
         ELSE wk' = [wk EXCEPT ![i] = Fail(@, "tag read failed")]
  /\ UNCHANGED <<args, entries, files, disk, taken, chunk, rpc, messages, runNo,
                 prevOk, nsave, nrename, files0, disk0, evars>>

\* One tag-editing stage: messages.push(editor(comments)?.to_string(..));
\* tag_modified = true
FieldStage(i, k, prefix, r) ==
  /\ At(i, Stages[k])
  /\ wk' = [wk EXCEPT ![i] =
       IF r.msg.kind = "Err" THEN Fail(@, r.msg.err)
       ELSE [@ EXCEPT !.comments = r.comments,
                      !.messages = Append(@, Line(prefix, r.msg, entries[i].name, args.run)),
                      !.tag_modified = TRUE,
                      !.pc = NextPc(args, k, TRUE)]]
  /\ UNCHANGED <<args, entries, files, disk, taken, chunk, rpc, messages, runNo,
                 prevOk, nsave, nrename, files0, disk0, evars>>

WorkerTracknumber(i) ==
  FieldStage(i, 1, "Norm. num", normalize_tracknumber(wk[i].comments))

WorkerTitle(i) ==
  FieldStage(i, 2, "Norm. title", normalize_title(wk[i].comments))

WorkerYear(i) ==
  FieldStage(i, 3, "Norm. year", normalize_year(wk[i].comments))

WorkerGenre(i) ==
  FieldStage(i, 4, "Set genre", set_genre(wk[i].comments, args.genre))

WorkerClean(i) ==
  FieldStage(i, 5, "Remove. junk", clean_others(wk[i].comments))

WorkerSetYear(i) ==
  FieldStage(i, 6, "Set year", set_year(wk[i].comments, args.year))

\* messages.push(rename(path, comments, run)?.to_string(..)).  When committing
\* a change, fs::rename(..).unwrap() runs: it moves the file, or fails (the
\* path is gone, permission denied, ...) and the unwrap panics.
WorkerRename(i) ==
  /\ At(i, "rename")
  /\ LET r    == rename(entries[i], wk[i].comments)
         done == [wk EXCEPT ![i] =
                   [@ EXCEPT !.messages = Append(@, Line("Rename", r.msg, entries[i].name, args.run)),
                             !.pc = NextPc(args, 7, wk[i].tag_modified)]]
     IN  IF r.msg.kind = "Err"
         THEN /\ wk' = [wk EXCEPT ![i] = Fail(@, r.msg.err)]
              /\ UNCHANGED <<files, nrename>>
         ELSE IF r.msg.kind = "ActionResult" /\ args.run
         THEN /\ nrename' = [nrename EXCEPT ![i] = @ + 1]
              /\ \E io_ok \in BOOLEAN :
                   IF io_ok /\ entries[i] \in DOMAIN files
                   THEN /\ files' = FsRename(files, entries[i], r.new_path)
                        /\ wk' = done
                   ELSE /\ wk' = [wk EXCEPT ![i].pc = "panicked"]
                        /\ UNCHANGED files
         ELSE /\ wk' = done
              /\ UNCHANGED <<files, nrename>>
  /\ UNCHANGED <<args, entries, disk, taken, chunk, rpc, messages, runNo,
                 prevOk, nsave, files0, disk0, evars>>

\* tag.save()?: the tag is written to the path it was read from.  The write
\* fails, or it rewrites the file at that path; when no file is at that path
\* any more, a write that succeeds has created one there.
WorkerSave(i) ==
  /\ At(i, "save")
  /\ nsave' = [nsave EXCEPT ![i] = @ + 1]
  /\ \E io_ok \in BOOLEAN :
       IF io_ok
       THEN LET path    == entries[i]
                content == [readable |-> TRUE, comments |-> wk[i].comments]
                fresh   == 1 + Cardinality(DOMAIN disk)
            IN  /\ IF path \in DOMAIN files
                   THEN /\ disk' = [disk EXCEPT ![files[path]] = content]
                        /\ UNCHANGED files
                   ELSE /\ disk' = [n \in (DOMAIN disk) \cup {fresh} |->
                                      IF n = fresh THEN content ELSE disk[n]]
                        /\ files' = [p \in (DOMAIN files) \cup {path} |->
                                      IF p = path THEN fresh ELSE files[p]]
                /\ wk' = [wk EXCEPT ![i].pc = "push"]
       ELSE /\ wk' = [wk EXCEPT ![i] = Fail(@, "tag save failed")]
            /\ UNCHANGED <<files, disk>>
  /\ UNCHANGED <<args, entries, taken, chunk, rpc, messages, runNo,
                 prevOk, nrename, files0, disk0, evars>>

\* The block run pushes for a file: the joined lines of Ok(msg), or the
\* error's text.
Block(i, w) ==
  IF w.result = ""
  THEN [entry |-> i, kind |-> "Ok", lines |-> w.messages, err |-> ""]
  ELSE [entry |-> i, kind |-> "Err", lines |-> <<>>, err |-> w.result]

\* messages.lock().unwrap().push(message)
WorkerPush(i) ==
  /\ At(i, "push")
  /\ messages' = Append(messages, Block(i, wk[i]))
  /\ wk' = [wk EXCEPT ![i].pc = "done"]
  /\ UNCHANGED <<args, entries, files, disk, taken, chunk, rpc, runNo,
                 prevOk, nsave, nrename, files0, disk0, evars>>

Min(a, b) == IF a <= b THEN a ELSE b

\* while entry_iter.peek().is_some() { entry_iter.by_ref().take(10)...par_iter()
RunTakeChunk ==
  /\ rpc = "peek"
  /\ taken < Len(entries)
  /\ chunk' = (taken + 1)..Min(taken + ChunkSize, Len(entries))
  /\ taken' = Min(taken + ChunkSize, Len(entries))
  /\ rpc' = "join"
  /\ UNCHANGED <<args, entries, files, disk, wk, messages, runNo,
                 prevOk, nsave, nrename, files0, disk0, evars>>

\* A for_each that returns as soon as every file of the chunk has been started.
RunJoin_Early ==
  /\ rpc = "join"
  /\ \A i \in chunk : wk[i].pc # "start"
  /\ rpc' = "peek"
  /\ chunk' = {}
  /\ UNCHANGED <<args, entries, files, disk, taken, wk, messages, runNo,
                 prevOk, nsave, nrename, files0, disk0, evars>>

\* for_each returns once every file of the chunk is done.
RunJoin ==
  /\ rpc = "join"
  /\ \A i \in chunk : wk[i].pc = "done"
  /\ rpc' = "peek"
  /\ chunk' = {}
  /\ UNCHANGED <<args, entries, files, disk, taken, wk, messages, runNo,
                 prevOk, nsave, nrename, files0, disk0, evars>>

\* The panic of a worker leaves for_each, and run, once the files of the
\* chunk that were started have ended; files not started may be left out.
RunUnwind ==
  /\ rpc = "join"
  /\ \E i \in chunk : wk[i].pc = "panicked"
  /\ \A i \in chunk : wk[i].pc \in {"start", "done", "panicked"}
  /\ rpc' = "panicked"
  /\ UNCHANGED <<args, entries, files, disk, taken, chunk, wk, messages, runNo,
                 prevOk, nsave, nrename, files0, disk0, evars>>

\* The loop ends; run returns messages.
RunReturn ==
  /\ rpc = "peek"
  /\ taken = Len(entries)
  /\ rpc' = "done"
  /\ UNCHANGED <<args, entries, files, disk, taken, chunk, wk, messages, runNo,
                 prevOk, nsave, nrename, files0, disk0, evars>>

MaxRuns == 2

\* The program is run again with the same arguments on the directory as the
\* run before left it.  prevOk keeps the inodes of the files the run before
\* processed without error.
RunAgain ==
  /\ rpc = "done"
  /\ runNo < MaxRuns
  /\ runNo' = runNo + 1
  /\ prevOk' = {wk[i].ino : i \in {j \in DOMAIN wk : wk[j].result = "" /\ wk[j].pc = "done"}}
  /\ entries' = Walk(files)
  /\ wk' = [i \in 1..Len(Walk(files)) |-> IdleWorker]
  /\ nsave' = [i \in 1..Len(Walk(files)) |-> 0]
  /\ nrename' = [i \in 1..Len(Walk(files)) |-> 0]
  /\ taken' = 0
  /\ chunk' = {}
  /\ messages' = <<>>
  /\ rpc' = "peek"
  /\ UNCHANGED <<args, files, disk, files0, disk0, evars>>

OpenStep == \E i \in DOMAIN wk : WorkerOpen(i)

TracknumberStep == \E i \in DOMAIN wk : WorkerTracknumber(i)

TitleStep == \E i \in DOMAIN wk : WorkerTitle(i)

YearStep == \E i \in DOMAIN wk : WorkerYear(i)

GenreStep == \E i \in DOMAIN wk : WorkerGenre(i)

CleanStep == \E i \in DOMAIN wk : WorkerClean(i)

SetYearStep == \E i \in DOMAIN wk : WorkerSetYear(i)

RenameStep == \E i \in DOMAIN wk : WorkerRename(i)

SaveStep == \E i \in DOMAIN wk : WorkerSave(i)

PushStep == \E i \in DOMAIN wk : WorkerPush(i)

WorkerNext ==
  \/ OpenStep
  \/ TracknumberStep
  \/ TitleStep
  \/ YearStep
  \/ GenreStep
  \/ CleanStep
  \/ SetYearStep
  \/ RenameStep
  \/ SaveStep
  \/ PushStep

RunNext == RunTakeChunk \/ RunJoin \/ RunUnwind \/ RunReturn

----------------------------------------------------------------------------
(* Initial states *)

OpFlags ==
  {"normalize_tracknumber", "normalize_title", "normalize_year", "set_genre",
   "clean_others", "set_year", "rename"}

\* parser::Args: at least one flag of the group "mode" is given; --genre and
\* --year default to "" and 0.
MkArgs(run, ops, genre, year) ==
  [run |-> run,
   normalize_tracknumber |-> "normalize_tracknumber" \in ops,
   normalize_title |-> "normalize_title" \in ops,
   normalize_year |-> "normalize_year" \in ops,
   set_genre |-> "set_genre" \in ops,
   clean_others |-> "clean_others" \in ops,
   set_year |-> "set_year" \in ops,
   rename |-> "rename" \in ops,
   genre |-> genre,
   year |-> year]

U32Of(n) == [hi |-> n \div Limb, lo |-> n % Limb]

Pop == <<"P", "o", "p">>
Rock == <<"R", "o", "c", "k">>

GenreArgs == {Pop}
YearArgs == {U32Of(1998), U32Of(12345)}

Flac(stem) == stem \o <<".">> \o FlacExt

InDir(dir, name) == [dir |-> dir, name |-> name]

Readable(comments) == [readable |-> TRUE, comments |-> comments]

Unreadable == [readable |-> FALSE, comments |-> NoComments]

\* Tags of the single-file specification: every field as the editors leave it;
\* every field in need of a change; a track number that is no number; a date
\* without a year; fields missing; no field at all.
TagCanonical ==
  Tag1("TRACKNUMBER", << <<"7">> >>) @@ Tag1("TITLE", << <<"A">> >>)
    @@ Tag1("DATE", << <<"1", "9", "9", "8">> >>) @@ Tag1("GENRE", <<Pop>>)
    @@ Tag1("COMMENT", << <<>> >>)

TagToChange ==
  Tag1("TRACKNUMBER", << <<"0", "7">> >>) @@ Tag1("TITLE", << <<"a", ":", "b">> >>)
    @@ Tag1("DATE", << <<"1", "9", "9", "8", "-", "1">> >>) @@ Tag1("GENRE", <<Rock>>)
    @@ Tag1("COMMENT", << <<"h", "i">> >>) @@ Tag1("LYRICS", << <<"h", "i">> >>)

TagBadNumber == Tag1("TRACKNUMBER", << <<"x">> >>) @@ TagToChange

TagNoYear == Tag1("DATE", << <<"n">> >>) @@ TagToChange

TagSparse ==
  Tag1("TRACKNUMBER", << <<"7">> >>) @@ Tag1("DATE", << <<"1", "9", "9", "8">> >>)

TagPool == {TagCanonical, TagToChange, TagBadNumber, TagNoYear, TagSparse, NoComments}

NamePool == {Flac(<<"x">>), Flac(<<"0", "7", " ", "-", " ", "A">>)}

HarnessIdle ==
  /\ ecomments = NoComments
  /\ ebefore = NoComments
  /\ emsg = Unchanged
  /\ eop = "none"
  /\ eprev = [op |-> "none", msg |-> Unchanged]
  /\ esteps = 0

\* The state main hands to run: the arguments, the directory, nothing processed.
Start(a, fs, d) ==
  /\ args = a
  /\ files = fs
  /\ disk = d
  /\ files0 = fs
  /\ disk0 = d
  /\ entries = Walk(fs)
  /\ wk = [i \in 1..Len(Walk(fs)) |-> IdleWorker]
  /\ nsave = [i \in 1..Len(Walk(fs)) |-> 0]
  /\ nrename = [i \in 1..Len(Walk(fs)) |-> 0]
  /\ taken = 0
  /\ chunk = {}
  /\ rpc = "peek"
  /\ messages = <<>>
  /\ runNo = 1
  /\ prevOk = {}

\* One file, any arguments.
Init ==
  /\ \E run \in BOOLEAN, ops \in (SUBSET OpFlags) \ {{}} :
     \E genre \in (IF "set_genre" \in ops THEN GenreArgs ELSE {<<>>}),
        year \in (IF "set_year" \in ops THEN YearArgs ELSE {U32Zero}),
        name \in NamePool,
        content \in {Readable(t) : t \in TagPool} \cup {Unreadable} :
       Start(MkArgs(run, ops, genre, year),
             [p \in {InDir("d", name)} |-> 1],
             [n \in {1} |-> content])
  /\ HarnessIdle

Next == WorkerNext \/ RunNext \/ RunAgain

Spec == Init /\ [][Next]_vars

NumFiles == 2

\* Tags of the batch specification: two tags that derive the name
\* "01 - a.flac", one of them with a padded track number.
TagOne == Tag1("TRACKNUMBER", << <<"1">> >>) @@ Tag1("TITLE", << <<"a">> >>)

TagPadded == Tag1("TRACKNUMBER", << <<"0", "1">> >>) @@ Tag1("TITLE", << <<"a">> >>)

BatchPaths ==
  {InDir("d", Flac(<<"x">>)),
   InDir("d", Flac(<<"0", "1", " ", "-", " ", "a">>)),
   InDir("e", Flac(<<"x">>))}

BatchContents == {Readable(TagOne), Readable(TagPadded), Unreadable}

BatchOps == (SUBSET {"normalize_tracknumber", "rename"}) \ {{}}

\* NumFiles files in two directories, processed with the track number and the
\* rename operations.
BatchInit ==
  /\ \E run \in BOOLEAN, ops \in BatchOps :
     \E paths \in {ps \in SUBSET BatchPaths : Cardinality(ps) = NumFiles} :
     \E contents \in [1..NumFiles -> BatchContents] :
       LET order == SetToSeq(paths)
       IN  Start(MkArgs(run, ops, <<>>, U32Zero),
                 [p \in paths |-> CHOOSE n \in 1..NumFiles : order[n] = p],
                 contents)
  /\ HarnessIdle

BatchNext ==
  \/ OpenStep
  \/ TracknumberStep
  \/ RenameStep
  \/ SaveStep
  \/ PushStep
  \/ RunNext

SpecBatch == BatchInit /\ [][BatchNext]_vars

----------------------------------------------------------------------------
(* Editor harness: one comment block, drawn from bounded sets of field      *)
(* values, to which the editors are applied one call after another.         *)

MaxNumLen == 3
MaxPad == 2
MaxYearLen == 6
MaxEditSteps == 2

\* 2^32 - 1, 2^32 and an eleven-digit number.
BigNumbers ==
  { <<"4","2","9","4","9","6","7","2","9","5">>,
    <<"4","2","9","4","9","6","7","2","9","6">>,
    <<"9","9","9","9","9","9","9","9","9","9","9">> }

NumInputs ==
  StringsUpTo({"0", "7", "+", "-", " "}, MaxNumLen)
    \cup {p \o b : p \in StringsUpTo({"0"}, MaxPad), b \in BigNumbers}

YearInputs == StringsUpTo({"1", "9", "-"}, MaxYearLen)

TextInputs == { <<>>, <<"h", "i">> }

EditInputs ==
  {NoComments}
    \cup {Tag1("TRACKNUMBER", <<s>>) : s \in NumInputs}
    \cup {Tag1("TRACKNUMBER", <<>>), Tag1("DATE", <<>>)}
    \cup {Tag1("DATE", <<s>>) : s \in YearInputs}
    \cup {Tag1("COMMENT", <<c>>) : c \in TextInputs}
    \cup {Tag1("LYRICS", <<l>>) : l \in TextInputs}
    \cup {Tag1("COMMENT", <<c>>) @@ Tag1("LYRICS", <<l>>) :
            c \in TextInputs, l \in TextInputs}
    \cup {Tag1("COMMENT", <<c, <<"x">> >>) : c \in TextInputs}

EditInit ==
  /\ ecomments \in EditInputs
  /\ ebefore = ecomments
  /\ emsg = Unchanged
  /\ eop = "none"
  /\ eprev = [op |-> "none", msg |-> Unchanged]
  /\ esteps = 0
  /\ Start(MkArgs(FALSE, {"normalize_tracknumber"}, <<>>, U32Zero), NoComments, NoComments)

\* One editor call on the harness block.
EditCall(op, r) ==
  /\ esteps < MaxEditSteps
  /\ ecomments' = r.comments
  /\ ebefore' = ecomments
  /\ emsg' = r.msg
  /\ eop' = op
  /\ eprev' = [op |-> eop, msg |-> emsg]
  /\ esteps' = esteps + 1
  /\ UNCHANGED bvars

EditTracknumber == EditCall("normalize_tracknumber", normalize_tracknumber(ecomments))

EditYear == EditCall("normalize_year", normalize_year(ecomments))

EditClean == EditCall("clean_others", clean_others(ecomments))

EditNext == EditTracknumber \/ EditYear \/ EditClean

SpecEdit == EditInit /\ [][EditNext]_vars

----------------------------------------------------------------------------
(* Properties of the editors (checked under SpecEdit) *)

AllDigits(s) == s # <<>> /\ \A k \in 1..Len(s) : s[k] \in Digits

\* A digit string without its leading zeros (one digit is always kept).
RECURSIVE DropZeros(_)
DropZeros(s) == IF Len(s) > 1 /\ Head(s) = "0" THEN DropZeros(Tail(s)) ELSE s

U32MaxDigits == <<"4","2","9","4","9","6","7","2","9","5">>

RECURSIVE LexLe(_, _)
LexLe(a, b) ==
  IF a = <<>> THEN TRUE
  ELSE IF DigitVal(Head(a)) # DigitVal(Head(b)) THEN DigitVal(Head(a)) < DigitVal(Head(b))
  ELSE LexLe(Tail(a), Tail(b))

\* The canonical digit string c denotes a value of at most 2^32 - 1.
FitsU32(c) == Len(c) < 10 \/ (Len(c) = 10 /\ LexLe(c, U32MaxDigits))

\* The outcome of the last call is Changed{old, new} with field key set to [new].
ChangedTo(key, old, new) ==
  /\ emsg = ActionResult(old, new)
  /\ ecomments = SetField(ebefore, key, <<new>>)

UnchangedCall == emsg = Unchanged /\ ecomments = ebefore

FailedCall == emsg.kind = "Err" /\ ecomments = ebefore

Populated(comments, key) == HasFirst(comments, key) /\ First(comments, key) # <<>>

RECURSIVE FirstRunOfFour(_, _)
FirstRunOfFour(s, i) ==
  IF i > Len(s) THEN <<>>
  ELSE IF s[i] \notin Digits THEN FirstRunOfFour(s, i + 1)
  ELSE LET end == CHOOSE e \in i..Len(s) :
                    /\ \A k \in i..e : s[k] \in Digits
                    /\ (e = Len(s) \/ s[e + 1] \notin Digits)
       IN  IF end - i + 1 = 4 THEN SubSeq(s, i, end)
           ELSE FirstRunOfFour(s, end + 1)

\* C9 as stated: the new DATE is the first run of exactly four digits; with no
\* such run the call fails and leaves the block alone.
C9_YearAsStated ==
  (eop = "normalize_year" /\ HasFirst(ebefore, "DATE")) =>
    LET old == First(ebefore, "DATE")
        new == FirstRunOfFour(old, 1)
    IN  IF new = <<>> THEN FailedCall
        ELSE IF new = old THEN UnchangedCall
        ELSE ChangedTo("DATE", old, new)

\* Position i starts four consecutive digits of s.
FourDigitsAt(s, i) == i + 3 <= Len(s) /\ \A k \in i..(i + 3) : s[k] \in Digits

\* C9 (amended): the new DATE is the leftmost four consecutive digits of the
\* old value (the first four digits of a longer run included); the call fails,
\* leaving the block alone, exactly when the old value has no four consecutive
\* digits, and is Unchanged when the old value is those four digits.
C9_YearLeftmostFour ==
  (eop = "normalize_year" /\ HasFirst(ebefore, "DATE")) =>
    LET old    == First(ebefore, "DATE")
        starts == {i \in 1..Len(old) : FourDigitsAt(old, i)}
    IN  IF starts = {} THEN FailedCall
        ELSE LET i   == CHOOSE j \in starts : \A k \in starts : j <= k
                 new == SubSeq(old, i, i + 3)
             IN  IF new = old THEN UnchangedCall
                 ELSE ChangedTo("DATE", old, new)

C9_Witness ==
  /\ eop = "normalize_year"
  /\ HasFirst(ebefore, "DATE")
  /\ Len(First(ebefore, "DATE")) = 6
  /\ ~FourDigitsAt(First(ebefore, "DATE"), 1)
  /\ emsg.kind = "ActionResult"
  /\ ecomments["DATE"] = <<emsg.new>>

\* C10 as stated: every string of decimal digits with leading zeros becomes
\* the canonical decimal string of its value.
C10_NumberAsStated ==
  (eop = "normalize_tracknumber" /\ HasFirst(ebefore, "TRACKNUMBER")) =>
    LET old == First(ebefore, "TRACKNUMBER")
    IN  (AllDigits(old) /\ Len(old) > 1 /\ Head(old) = "0")
          => ChangedTo("TRACKNUMBER", old, DropZeros(old))

\* C10 (amended): a string of decimal digits (after at most one leading "+")
\* whose value is at most 2^32 - 1 becomes the canonical decimal string of
\* that value, and is Unchanged when it already is that string; any other
\* value (a value above 2^32 - 1, surrounding whitespace, a "-", no digit)
\* fails and leaves the block alone; a second call after a call that did not
\* fail is Unchanged.
C10_FormatNumber ==
  (eop = "normalize_tracknumber" /\ HasFirst(ebefore, "TRACKNUMBER")) =>
    LET old  == First(ebefore, "TRACKNUMBER")
        body == IF old # <<>> /\ Head(old) = "+" THEN Tail(old) ELSE old
    IN  /\ IF AllDigits(body) /\ FitsU32(DropZeros(body))
           THEN IF old = DropZeros(body) THEN UnchangedCall
                ELSE ChangedTo("TRACKNUMBER", old, DropZeros(body))
           ELSE FailedCall
        /\ (eprev.op = "normalize_tracknumber" /\ eprev.msg.kind # "Err")
             => UnchangedCall

C10_Witness ==
  /\ eop = "normalize_tracknumber"
  /\ eprev.op = "normalize_tracknumber"
  /\ eprev.msg.kind = "ActionResult"
  /\ Len(eprev.msg.old) > 10
  /\ Head(eprev.msg.old) = "0"
  /\ emsg = Unchanged

----------------------------------------------------------------------------
(* Properties of worker and run (checked under Spec and SpecBatch) *)

EnabledStages(a) == {k \in 1..Len(Stages) : StageEnabled(a, Stages[k])}

Blocks == {messages[n] : n \in 1..Len(messages)}

LinesOf(w) == {w.messages[n] : n \in 1..Len(w.messages)}

\* C1 as stated: the block of a file whose tag was read holds a message for
\* every enabled operation, a failed operation's error counting as its message.
C1_EveryOperationReports ==
  \A b \in Blocks :
    (wk[b.entry].ino # 0 /\ b.err # "tag save failed") =>
      Len(b.lines) + (IF b.kind = "Err" THEN 1 ELSE 0)
        = Cardinality(EnabledStages(args))

\* A tag-editing operation of the worker call reported a change.
FieldChanged(w) ==
  \E l \in LinesOf(w) : l.prefix # "Rename" /\ l.kind = "ActionResult"

\* C2 as stated: for a file processed without error, tag.save() is called once
\* when committing and a tag-editing operation changed the tag, and is not
\* called otherwise.
C2_SaveIffMutated ==
  \A i \in DOMAIN wk :
    (wk[i].pc = "done" /\ wk[i].result = "") =>
      nsave[i] = IF args.run /\ FieldChanged(wk[i]) THEN 1 ELSE 0

\* C3: in a preview (run = false) nothing on the filesystem changes: no
\* tag.save(), no fs::rename, every path and every tag as found; and the
\* changes that a commit would make are reported: a padded track number on
\* disk as "old -> canonical", a file whose name differs from the derived name
\* as "old name -> new name" while the file keeps its old name.
C3_PreviewNoEffect ==
  ~args.run =>
    /\ files = files0
    /\ disk = disk0
    /\ \A i \in DOMAIN wk : nsave[i] = 0 /\ nrename[i] = 0
    /\ \A i \in DOMAIN wk :
         (wk[i].pc = "done" /\ wk[i].result = "") =>
           LET on_disk == disk[files[entries[i]]].comments
               last    == wk[i].messages[Len(wk[i].messages)]
           IN  /\ (args.normalize_tracknumber
                     /\ First(on_disk, "TRACKNUMBER") # DropZeros(First(on_disk, "TRACKNUMBER")))
                    => wk[i].messages[1] =
                         [prefix |-> "Norm. num", kind |-> "ActionResult", name |-> <<>>,
                          old |-> First(on_disk, "TRACKNUMBER"),
                          new |-> DropZeros(First(on_disk, "TRACKNUMBER")),
                          colour |-> "yellow"]
               /\ args.rename =>
                    /\ last.prefix = "Rename"
                    /\ last.kind = "Unchanged" <=>
                         entries[i].name =
                           NewName(First(wk[i].comments, "TRACKNUMBER"),
                                   First(wk[i].comments, "TITLE"), FlacExt)
                    /\ last.kind = "ActionResult" =>
                         /\ last.old = entries[i].name
                         /\ last.colour = "yellow"
                         /\ InDir(entries[i].dir, last.new) \notin DOMAIN files

C3_Witness ==
  /\ ~args.run
  /\ rpc = "done"
  /\ \E b \in Blocks :
       /\ b.kind = "Ok"
       /\ \E n \in 1..Len(b.lines) : b.lines[n].prefix = "Rename" /\ b.lines[n].kind = "ActionResult"
       /\ \E n \in 1..Len(b.lines) : b.lines[n].prefix = "Norm. num" /\ b.lines[n].kind = "ActionResult"
       /\ \E n \in 1..Len(b.lines) : b.lines[n].prefix = "Remove. junk" /\ b.lines[n].kind = "ActionResult"

\* C4 as stated: when the run has ended, the collection holds exactly one block
\* for every discovered file, a failure for a file whose tag cannot be read.
C4_OneBlockPerFile ==
  rpc \in {"done", "panicked"} =>
    \A i \in 1..Len(entries) :
      /\ Cardinality({n \in 1..Len(messages) : messages[n].entry = i}) = 1
      /\ ~disk0[files0[entries[i]]].readable =>
           \E b \in Blocks : b.entry = i /\ b.kind = "Err"

\* C5 as stated: no error panics; a failed rename leaves the run going.
C5_NoPanic ==
  /\ rpc # "panicked"
  /\ \A i \in DOMAIN wk : wk[i].pc # "panicked"

\* C6 as stated, for arguments without rename and without both year
\* operations: in a run after a committing run, a file that the run before
\* processed without error has only unchanged lines and no operation error,
\* and nothing is mutated: the tag in memory stays as read and neither
\* tag.save() nor fs::rename is called.
C6_RerunUnchanged ==
  (runNo > 1 /\ args.run /\ ~args.rename /\ ~(args.normalize_year /\ args.set_year)) =>
    \A i \in DOMAIN wk :
      wk[i].ino \in prevOk =>
        /\ wk[i].result \in {"", "tag save failed"}
        /\ \A l \in LinesOf(wk[i]) : l.kind = "Unchanged"
        /\ wk[i].comments = wk[i].read
        /\ nsave[i] = 0
        /\ nrename[i] = 0

\* C7 as stated: when committing, every file the run found exists under
\* exactly one name, in the directory it was found in, and no other file exists.
C7_FilesKept ==
  args.run =>
    /\ \A p0 \in DOMAIN files0 :
         /\ Cardinality({p \in DOMAIN files : files[p] = files0[p0]}) = 1
         /\ \A p \in DOMAIN files : files[p] = files0[p0] => p.dir = p0.dir
    /\ \A p \in DOMAIN files : \E p0 \in DOMAIN files0 : files[p] = files0[p0]

----------------------------------------------------------------------------
(* Order of the operations (checked under Spec) *)

\* The line prefixes in the order the claim gives: tracknumber, title, year,
\* genre, year-set, erase, rename.
StatedOrder ==
  <<"Norm. num", "Norm. title", "Norm. year", "Set genre", "Set year",
    "Remove. junk", "Rename">>

\* The line prefixes in the order of the if statements of worker.
CodeOrder ==
  <<"Norm. num", "Norm. title", "Norm. year", "Set genre", "Remove. junk",
    "Set year", "Rename">>

PositionIn(order, prefix) == CHOOSE k \in 1..Len(order) : order[k] = prefix

\* The lines a worker call has emitted follow the given order.
InOrder(w, order) ==
  \A m, n \in 1..Len(w.messages) :
    m < n => PositionIn(order, w.messages[m].prefix) < PositionIn(order, w.messages[n].prefix)

\* C11 as stated: the messages of every file follow the order tracknumber,
\* title, year, genre, year-set, erase, rename.
C11_OrderAsStated == \A i \in DOMAIN wk : InOrder(wk[i], StatedOrder)

\* C11 (amended): the operations of a file are invoked, and their messages
\* emitted, in the order tracknumber, title, year, genre, erase, year-set,
\* rename: the lines emitted so far follow that order, an operation about to
\* be invoked comes after every line emitted, and a file processed without
\* error has one line for each enabled operation, in that order.
C11_FixedOrder ==
  \A i \in DOMAIN wk :
    LET w == wk[i]
    IN  /\ InOrder(w, CodeOrder)
        /\ \A k \in 1..Len(Stages) :
             w.pc = Stages[k] =>
               \A n \in 1..Len(w.messages) : PositionIn(CodeOrder, w.messages[n].prefix) < k
        /\ (w.pc = "done" /\ w.result = "") =>
             /\ Len(w.messages) = Cardinality(EnabledStages(args))
             /\ \A k \in EnabledStages(args) :
                  \E n \in 1..Len(w.messages) : w.messages[n].prefix = CodeOrder[k]

C11_Witness ==
  \E i \in DOMAIN wk :
    /\ wk[i].pc = "done"
    /\ wk[i].result = ""
    /\ Len(wk[i].messages) = 7
    /\ wk[i].messages[5].prefix = "Remove. junk"
    /\ wk[i].messages[6].prefix = "Set year"
    /\ wk[i].messages[7].prefix = "Rename"

----------------------------------------------------------------------------
(* Chunks: more files than one chunk holds, run by a pool of MaxThreads      *)
(* threads that take the entries of the chunk in their order.                *)

MaxThreads == 2
ExtraFiles == 1

ChunkStems == <<"a", "b", "c", "d", "e", "f", "g", "h", "i", "j", "k", "l", "m", "n">>

ChunkFiles == ChunkSize + ExtraFiles

\* The k-th file: its tag, the name rename derives from the tag, and a name
\* that differs from it.
ChunkTag(k) == Tag1("TRACKNUMBER", << <<"1">> >>) @@ Tag1("TITLE", << <<ChunkStems[k]>> >>)

ChunkDerived(k) == InDir("d", NewName(<<"1">>, <<ChunkStems[k]>>, FlacExt))

ChunkOther(k) == InDir("d", Flac(<<ChunkStems[k]>>))

\* ChunkFiles files in one directory, committed with the rename operation: the
\* first file is unreadable, the second does not have the name rename derives
\* (its fs::rename succeeds or fails), the others have it.
ChunkInit ==
  /\ LET PathOf(k) == IF k = 2 THEN ChunkOther(k) ELSE ChunkDerived(k)
         paths == {PathOf(k) : k \in 1..ChunkFiles}
     IN  Start(MkArgs(TRUE, {"rename"}, <<>>, U32Zero),
               [p \in paths |-> CHOOSE k \in 1..ChunkFiles : PathOf(k) = p],
               [k \in 1..ChunkFiles |->
                  IF k = 1 THEN Unreadable ELSE Readable(ChunkTag(k))])
  /\ HarnessIdle

\* worker calls of the chunk that a thread of the pool is running.
InFlight == {j \in DOMAIN wk : wk[j].pc \notin {"start", "done", "panicked"}}

\* A free thread of the pool calls worker for the next entry of the chunk.
PoolOpenStep ==
  \E i \in DOMAIN wk :
    /\ Cardinality(InFlight) < MaxThreads
    /\ \A j \in chunk : j < i => wk[j].pc # "start"
    /\ WorkerOpen(i)

ChunkNext ==
  \/ PoolOpenStep
  \/ RenameStep
  \/ PushStep
  \/ RunNext

SpecChunk == ChunkInit /\ [][ChunkNext]_vars

\* The chunk of the i-th discovered file, chunks holding ten files.
ChunkOf(i) == ((i - 1) \div 10) + 1

HasBlock(j) == \E n \in 1..Len(messages) : messages[n].entry = j

\* C12: chunk barrier.  At most ten files are handed out at a time; when a
\* file has started processing, every file of the chunks before its chunk has
\* its block in the shared collection; files in flight at the same time are
\* files of one chunk.
C12_ChunkBarrier ==
  /\ Cardinality(chunk) <= 10
  /\ \A i, j \in DOMAIN wk :
       (wk[i].pc # "start" /\ ChunkOf(j) < ChunkOf(i)) => HasBlock(j)
  /\ \A i, j \in InFlight : ChunkOf(i) = ChunkOf(j)

C12_Witness ==
  /\ Len(messages) = 10
  /\ \E i \in InFlight : ChunkOf(i) = 2
  /\ \E n \in 1..Len(messages) : messages[n].kind = "Err"

----------------------------------------------------------------------------
(* The text of a block (checked under Spec) *)

\* The string Message::to_string builds for a line, as a sequence of tokens.
LineText(l) ==
  IF l.kind = "Unchanged"
  THEN <<l.prefix, " (unchanged): ">> \o l.name
  ELSE <<l.prefix, ": ">> \o l.old \o <<" -> ">> \o l.new

RECURSIVE JoinLines(_)
JoinLines(ls) ==
  IF ls = <<>> THEN <<>>
  ELSE IF Len(ls) = 1 THEN LineText(Head(ls))
  ELSE LineText(Head(ls)) \o <<"\n">> \o JoinLines(Tail(ls))

\* The string run pushes for a file: msg.join("\n") for Ok(msg), and
\* err.to_string().red() for Err(err): the text of the error and nothing else.
BlockText(b) == IF b.kind = "Err" THEN <<b.err>> ELSE JoinLines(b.lines)

\* The string name occurs in text.
Contains(text, name) ==
  \E k \in 0..(Len(text) - Len(name)) : SubSeq(text, k + 1, k + Len(name)) = name

\* C13 as stated: every failure block carries the name of the file that
\* failed, and a file has at most one failure block.
C13_FailureNamesFile ==
  \A b \in Blocks :
    b.kind = "Err" =>
      /\ Contains(BlockText(b), entries[b.entry].name)
      /\ Cardinality({n \in 1..Len(messages) : messages[n].entry = b.entry}) = 1

----------------------------------------------------------------------------
(* All six editors on one comment block (SpecOutcome) *)

MaxTitleLen == 3

TitleInputs == StringsUpTo({"a", "A", "eA", " "}, MaxTitleLen)

GenreInputs == {<<>>, Pop, Rock}

OutcomeInputs ==
  EditInputs
    \cup TagPool
    \cup {Tag1("TITLE", <<s>>) : s \in TitleInputs}
    \cup {Tag1("TITLE", <<>>), Tag1("GENRE", <<>>)}
    \cup {Tag1("GENRE", <<s>>) : s \in GenreInputs}
    \cup {Tag1("GENRE", <<s, Pop>>) : s \in GenreInputs}

OutcomeInit ==
  /\ ecomments \in OutcomeInputs
  /\ ebefore = ecomments
  /\ emsg = Unchanged
  /\ eop = "none"
  /\ eprev = [op |-> "none", msg |-> Unchanged]
  /\ esteps = 0
  /\ Start(MkArgs(FALSE, {"normalize_tracknumber"}, <<>>, U32Zero), NoComments, NoComments)

EditTitle == EditCall("normalize_title", normalize_title(ecomments))

\* --genre is any string, "" by default.
EditGenre ==
  \E genre \in GenreArgs \cup {<<>>} : EditCall("set_genre", set_genre(ecomments, genre))

\* --year is any u32, 0 by default.
EditSetYear ==
  \E year \in YearArgs \cup {U32Zero} : EditCall("set_year", set_year(ecomments, year))

OutcomeNext ==
  \/ EditTracknumber
  \/ EditTitle
  \/ EditYear
  \/ EditGenre
  \/ EditClean
  \/ EditSetYear

SpecOutcome == OutcomeInit /\ [][OutcomeNext]_vars

\* The fields an editor writes.
FieldsOf(op) ==
  CASE op = "normalize_tracknumber" -> {"TRACKNUMBER"}
    [] op = "normalize_title"       -> {"TITLE"}
    [] op = "normalize_year"        -> {"DATE"}
    [] op = "set_genre"             -> {"GENRE"}
    [] op = "set_year"              -> {"DATE"}
    [] op = "clean_others"          -> {"COMMENT", "LYRICS"}

====
